---- MODULE Spec2Model ----
(***************************************************************************)
(* Model of the reentrant shared/exclusive locks of                        *)
(* KonanM/shared_recursive_mutex:                                          *)
(*   variant "G":  mtx::shared_recursive_mutex_t<PhantomType>              *)
(*                 (include/shared_recursive_mutex/shared_recursive_mutex.hpp),*)
(*                 thread-local counters over one std::shared_mutex;       *)
(*   variant "F":  mtx::shared_recursive_mutex                             *)
(*                 (shared_recursive_mutex_condition_variable.hpp), a      *)
(*                 monitor of one std::mutex and two condition variables.  *)
(* A step of the model is one atomic segment of a member function: the     *)
(* code between two operations on the std::shared_mutex (variant G), or    *)
(* the code run under m_mtx between two waits / up to the release of m_mtx *)
(* (variant F).  Threads are the callers; `held` is the callers' own view  *)
(* of their scoped guards and is not read by the lock code.                *)
(***************************************************************************)
EXTENDS Integers, Sequences, FiniteSets, TLC

\* ------------------------------------------------------------------ bounds
NumThreads == 2
MaxDepth == 3
NumIterations == 4

Threads == 1..NumThreads
\* std::thread::id() : the id that names no thread
NoThread == 0

VARIABLES
    variant,                        \* which class the behaviour is about
    driver,                         \* the callers: "free" (any properly nested calls) or "test" (test.cpp's loop)
    pc,                             \* per thread: "idle" or the place it is blocked / suspended at
    held,                           \* per thread: stack of guards it owns ("W" unique_lock, "R" shared_lock)
    last,                           \* free callers: the last return of a member function, <<thread, function and result>>
    g_readers, g_writers,           \* G: thread_local counters
    m_sharedMtx,                    \* G: the std::shared_mutex: [owner, shared]
    m_writerThreadId,               \* F
    m_writersOwnership,             \* F
    m_readerOwnershipBeforeUpgrade, \* F
    m_readersOwnership,             \* F: unordered_map<thread::id, uint32_t> as a function on its key set
    m_write_queue, m_read_queue,    \* F: threads blocked in wait() on each condition variable
    readersOnThisThread,            \* F: the local of lock()
    fault,                          \* "none", or "ub" (undefined behaviour executed), or "assert" (assert() aborted)
    iter, ip, counter, reg          \* test drivers: iteration, instruction, the protected int, a register

gVars == <<g_readers, g_writers, m_sharedMtx>>
fVars == <<m_writerThreadId, m_writersOwnership, m_readerOwnershipBeforeUpgrade,
           m_readersOwnership, m_write_queue, m_read_queue, readersOnThisThread>>
testVars == <<iter, ip, counter, reg>>
vars == <<variant, driver, pc, held, last, gVars, fVars, fault, testVars>>

\* ---------------------------------------------------------------- uint32_t
\* The counters are uint32_t.  A value v is kept as the two's-complement
\* integer of the same bit pattern (v for v < 2^31, v - 2^32 otherwise), so
\* ++ and -- are +1 and -1 (0 - 1 is -1, the pattern 0xFFFFFFFF) and the
\* unsigned test `v > 0` is `v # 0`.
Inc32(v) == v + 1
Dec32(v) == v - 1
Gt0(v) == v # 0

\* ---------------------------------------------------- std::shared_mutex (G)
MtxFree == m_sharedMtx.owner = NoThread /\ m_sharedMtx.shared = {}
MtxNoOwner == m_sharedMtx.owner = NoThread

\* lock(): blocks until no thread owns the mutex in any mode
Mtx_lock(t) ==
    /\ MtxFree
    /\ m_sharedMtx' = [m_sharedMtx EXCEPT !.owner = t]
    /\ UNCHANGED fault

\* lock_shared(): blocks while a thread owns the mutex exclusively
Mtx_lock_shared(t) ==
    /\ MtxNoOwner
    /\ m_sharedMtx' = [m_sharedMtx EXCEPT !.shared = @ \cup {t}]
    /\ fault' = IF t \in m_sharedMtx.shared \/ m_sharedMtx.owner = t THEN "ub" ELSE fault

\* unlock(): undefined unless the caller owns the mutex exclusively
Mtx_unlock(t) ==
    /\ m_sharedMtx' = [m_sharedMtx EXCEPT !.owner = IF @ = t THEN NoThread ELSE @]
    /\ fault' = IF m_sharedMtx.owner # t THEN "ub" ELSE fault

\* unlock_shared(): undefined unless the caller owns the mutex shared
Mtx_unlock_shared(t) ==
    /\ m_sharedMtx' = [m_sharedMtx EXCEPT !.shared = @ \ {t}]
    /\ fault' = IF t \notin m_sharedMtx.shared THEN "ub" ELSE fault

\* ------------------------------------------- shared_recursive_mutex_t (G)
\* mutant: lock() whose upgrade branch is empty: a reader counts itself a writer
\* without giving up the shared hold and taking the exclusive one
Global_lock_no_upgrade(t) ==
    /\ pc[t] = "idle"
    /\ IF g_writers[t] = 0 /\ g_readers[t] = 0
       THEN /\ pc' = [pc EXCEPT ![t] = "lock:mtx"]
            /\ UNCHANGED <<gVars, fault>>
       ELSE /\ g_writers' = [g_writers EXCEPT ![t] = Inc32(@)]
            /\ UNCHANGED <<pc, g_readers, m_sharedMtx, fault>>

\* mutant: lock() whose upgrade branch forgets m_sharedMtx.unlock_shared()
Global_lock_keeps_shared(t) ==
    /\ pc[t] = "idle"
    /\ IF g_writers[t] = 0
       THEN /\ pc' = [pc EXCEPT ![t] = "lock:mtx"]
            /\ UNCHANGED <<gVars, fault>>
       ELSE /\ g_writers' = [g_writers EXCEPT ![t] = Inc32(@)]
            /\ UNCHANGED <<pc, g_readers, m_sharedMtx, fault>>

\* mutant: lock() that upgrades in place when the caller is the only reader:
\* the shared hold becomes the exclusive one with no release in between
Global_lock_upgrade_in_place(t) ==
    /\ pc[t] = "idle"
    /\ IF g_writers[t] = 0 /\ g_readers[t] = 0
       THEN /\ pc' = [pc EXCEPT ![t] = "lock:mtx"]
            /\ UNCHANGED <<gVars, fault>>
       ELSE IF g_writers[t] = 0 /\ Gt0(g_readers[t])
       THEN IF m_sharedMtx.shared = {t} /\ m_sharedMtx.owner = NoThread
            THEN /\ m_sharedMtx' = [owner |-> t, shared |-> {}]
                 /\ g_writers' = [g_writers EXCEPT ![t] = Inc32(@)]
                 /\ UNCHANGED <<pc, g_readers, fault>>
            ELSE /\ Mtx_unlock_shared(t)
                 /\ pc' = [pc EXCEPT ![t] = "lock:mtx"]
                 /\ UNCHANGED <<g_readers, g_writers>>
       ELSE /\ g_writers' = [g_writers EXCEPT ![t] = Inc32(@)]
            /\ UNCHANGED <<pc, g_readers, m_sharedMtx, fault>>

Global_lock(t) ==
    /\ pc[t] = "idle"
    /\ IF g_writers[t] = 0 /\ g_readers[t] = 0
       THEN /\ pc' = [pc EXCEPT ![t] = "lock:mtx"]
            /\ UNCHANGED <<gVars, fault>>
       ELSE IF g_writers[t] = 0 /\ Gt0(g_readers[t])
       THEN /\ Mtx_unlock_shared(t)
            /\ pc' = [pc EXCEPT ![t] = "lock:mtx"]
            /\ UNCHANGED <<g_readers, g_writers>>
       ELSE /\ g_writers' = [g_writers EXCEPT ![t] = Inc32(@)]
            /\ UNCHANGED <<pc, g_readers, m_sharedMtx, fault>>

\* m_sharedMtx.lock() of lock() returns; ++g_writers
Global_lock_mtx(t) ==
    /\ pc[t] = "lock:mtx"
    /\ Mtx_lock(t)
    /\ g_writers' = [g_writers EXCEPT ![t] = Inc32(@)]
    /\ pc' = [pc EXCEPT ![t] = "idle"]
    /\ UNCHANGED g_readers

\* mutant: lock_shared() without the `g_writers > 0` branch: the exclusive holder
\* is counted as one more reader
Global_lock_shared_counts_reader(t) ==
    /\ pc[t] = "idle"
    /\ IF Gt0(g_writers[t]) \/ Gt0(g_readers[t])
       THEN /\ g_readers' = [g_readers EXCEPT ![t] = Inc32(@)]
            /\ UNCHANGED <<pc, g_writers, m_sharedMtx, fault>>
       ELSE /\ pc' = [pc EXCEPT ![t] = "lock_shared:mtx"]
            /\ UNCHANGED <<gVars, fault>>

Global_lock_shared(t) ==
    /\ pc[t] = "idle"
    /\ IF Gt0(g_writers[t])
       THEN /\ g_writers' = [g_writers EXCEPT ![t] = Inc32(@)]
            /\ UNCHANGED <<pc, g_readers, m_sharedMtx, fault>>
       ELSE IF Gt0(g_readers[t])
       THEN /\ g_readers' = [g_readers EXCEPT ![t] = Inc32(@)]
            /\ UNCHANGED <<pc, g_writers, m_sharedMtx, fault>>
       ELSE /\ pc' = [pc EXCEPT ![t] = "lock_shared:mtx"]
            /\ UNCHANGED <<gVars, fault>>

\* mutant: lock_shared() that calls m_sharedMtx.lock() for m_sharedMtx.lock_shared()
Global_lock_shared_mtx_exclusive(t) ==
    /\ pc[t] = "lock_shared:mtx"
    /\ MtxFree
    /\ m_sharedMtx' = [m_sharedMtx EXCEPT !.shared = @ \cup {t}]
    /\ UNCHANGED fault
    /\ g_readers' = [g_readers EXCEPT ![t] = Inc32(@)]
    /\ pc' = [pc EXCEPT ![t] = "idle"]
    /\ UNCHANGED g_writers

\* m_sharedMtx.lock_shared() of lock_shared() returns; ++g_readers
Global_lock_shared_mtx(t) ==
    /\ pc[t] = "lock_shared:mtx"
    /\ Mtx_lock_shared(t)
    /\ g_readers' = [g_readers EXCEPT ![t] = Inc32(@)]
    /\ pc' = [pc EXCEPT ![t] = "idle"]
    /\ UNCHANGED g_writers

\* mutant: unlock() without `if (g_writers > 0) return;`: every unlock() releases the mutex
Global_unlock_body_no_depth(t, op) ==
    /\ g_writers' = [g_writers EXCEPT ![t] = Dec32(@)]
    /\ Mtx_unlock(t)
    /\ pc' = [pc EXCEPT ![t] = IF Gt0(g_readers[t]) /\ g_writers'[t] = 0 THEN op \o ":mtx" ELSE "idle"]
    /\ UNCHANGED g_readers

\* the body of unlock(); op names the member function the caller entered by
\* (unlock_shared() calls unlock() when g_writers > 0)
Global_unlock_body(t, op) ==
    /\ g_writers' = [g_writers EXCEPT ![t] = Dec32(@)]
    /\ IF Gt0(g_writers'[t])
       THEN UNCHANGED <<pc, g_readers, m_sharedMtx, fault>>
       ELSE /\ Mtx_unlock(t)
            /\ pc' = [pc EXCEPT ![t] = IF Gt0(g_readers[t]) THEN op \o ":mtx" ELSE "idle"]
            /\ UNCHANGED g_readers

Global_unlock(t) ==
    /\ pc[t] = "idle"
    /\ Global_unlock_body(t, "unlock")

\* m_sharedMtx.lock_shared() of unlock() returns (the downgrade)
Global_unlock_mtx(t) ==
    /\ pc[t] \in {"unlock:mtx", "unlock_shared:mtx"}
    /\ Mtx_lock_shared(t)
    /\ pc' = [pc EXCEPT ![t] = "idle"]
    /\ UNCHANGED <<g_readers, g_writers>>

\* mutant: unlock_shared() that calls m_sharedMtx.unlock_shared() at every depth
Global_unlock_shared_every_depth(t) ==
    /\ pc[t] = "idle"
    /\ IF Gt0(g_writers[t])
       THEN Global_unlock_body(t, "unlock_shared")
       ELSE /\ g_readers' = [g_readers EXCEPT ![t] = Dec32(@)]
            /\ Mtx_unlock_shared(t)
            /\ UNCHANGED <<pc, g_writers>>

Global_unlock_shared(t) ==
    /\ pc[t] = "idle"
    /\ IF Gt0(g_writers[t])
       THEN Global_unlock_body(t, "unlock_shared")
       ELSE /\ g_readers' = [g_readers EXCEPT ![t] = Dec32(@)]
            /\ IF g_readers'[t] = 0
               THEN Mtx_unlock_shared(t)
               ELSE UNCHANGED <<m_sharedMtx, fault>>
            /\ UNCHANGED <<pc, g_writers>>

\* std::shared_mutex::try_lock / try_lock_shared may fail spuriously: the
\* result false is possible in every state, true only when the mutex is free.
Global_try_lock(t, r) ==
    /\ pc[t] = "idle"
    /\ IF Gt0(g_writers[t])
       THEN /\ r = TRUE
            /\ g_writers' = [g_writers EXCEPT ![t] = Inc32(@)]
            /\ UNCHANGED <<pc, g_readers, m_sharedMtx, fault>>
       ELSE IF Gt0(g_readers[t])
       THEN /\ r = FALSE
            /\ UNCHANGED <<pc, gVars, fault>>
       ELSE \/ /\ r = TRUE
               /\ Mtx_lock(t)
               /\ g_writers' = [g_writers EXCEPT ![t] = Inc32(@)]
               /\ UNCHANGED <<pc, g_readers>>
            \/ /\ r = FALSE
               /\ UNCHANGED <<pc, gVars, fault>>

Global_try_lock_shared(t, r) ==
    /\ pc[t] = "idle"
    /\ IF Gt0(g_writers[t]) \/ Gt0(g_readers[t])
       THEN /\ r = TRUE
            /\ Global_lock_shared(t)
       ELSE \/ /\ r = TRUE
               /\ Mtx_lock_shared(t)
               /\ g_readers' = [g_readers EXCEPT ![t] = Inc32(@)]
               /\ UNCHANGED <<pc, g_writers>>
            \/ /\ r = FALSE
               /\ UNCHANGED <<pc, gVars, fault>>

Global_is_locked(t) == Gt0(g_writers[t])
Global_is_locked_shared(t) == Gt0(g_readers[t]) /\ g_writers[t] = 0

\* ------------------------------------------------ std::condition_variable
\* notify_one(): one of the threads blocked in wait(), if any, is unblocked
NotifyOne(q) == IF q = {} THEN {q} ELSE {q \ {w} : w \in q}

\* --------------------- shared_recursive_mutex, condition-variable form (F)
MapErase(m, k) == [x \in DOMAIN m \ {k} |-> m[x]]
MapPut(m, k, v) == [x \in DOMAIN m \cup {k} |-> IF x = k THEN v ELSE m[x]]

\* mutant: lock() that announces itself (m_writerThreadId, m_writersOwnership)
\* only after the wait for the readers, not before it
Cv_lock_from_wait_late_register(t, n, rd, rq) ==
    IF Gt0(m_writersOwnership)
    THEN /\ pc' = [pc EXCEPT ![t] = "lock:write_queue"]
         /\ m_write_queue' = m_write_queue \cup {t}
         /\ m_readersOwnership' = rd
         /\ m_read_queue' = rq
         /\ readersOnThisThread' = [readersOnThisThread EXCEPT ![t] = n]
         /\ UNCHANGED <<m_writerThreadId, m_writersOwnership, m_readerOwnershipBeforeUpgrade>>
    ELSE /\ m_readerOwnershipBeforeUpgrade' = IF n # 0 THEN n ELSE m_readerOwnershipBeforeUpgrade
         /\ m_readersOwnership' = rd
         /\ IF DOMAIN rd # {}
            THEN /\ pc' = [pc EXCEPT ![t] = "lock:read_queue"]
                 /\ m_read_queue' = rq \cup {t}
                 /\ readersOnThisThread' = [readersOnThisThread EXCEPT ![t] = n]
                 /\ UNCHANGED <<m_writerThreadId, m_writersOwnership>>
            ELSE /\ pc' = [pc EXCEPT ![t] = "idle"]
                 /\ m_read_queue' = rq
                 /\ readersOnThisThread' = [readersOnThisThread EXCEPT ![t] = 0]
                 /\ m_writerThreadId' = t
                 /\ m_writersOwnership' = 1
         /\ UNCHANGED m_write_queue

\* lock() from `while (m_writersOwnership > 0) m_write_queue.wait(lock)` to its
\* return or next wait; n is readersOnThisThread, rd the reader map and rq the
\* waiters of m_read_queue as the caller leaves them
Cv_lock_from_wait(t, n, rd, rq) ==
    IF Gt0(m_writersOwnership)
    THEN /\ pc' = [pc EXCEPT ![t] = "lock:write_queue"]
         /\ m_write_queue' = m_write_queue \cup {t}
         /\ m_readersOwnership' = rd
         /\ m_read_queue' = rq
         /\ readersOnThisThread' = [readersOnThisThread EXCEPT ![t] = n]
         /\ UNCHANGED <<m_writerThreadId, m_writersOwnership, m_readerOwnershipBeforeUpgrade>>
    ELSE /\ m_readerOwnershipBeforeUpgrade' = IF n # 0 THEN n ELSE m_readerOwnershipBeforeUpgrade
         /\ m_writerThreadId' = t
         /\ m_writersOwnership' = 1
         /\ m_readersOwnership' = rd
         /\ IF DOMAIN rd # {}
            THEN /\ pc' = [pc EXCEPT ![t] = "lock:read_queue"]
                 /\ m_read_queue' = rq \cup {t}
                 /\ readersOnThisThread' = [readersOnThisThread EXCEPT ![t] = n]
            ELSE /\ pc' = [pc EXCEPT ![t] = "idle"]
                 /\ m_read_queue' = rq
                 /\ readersOnThisThread' = [readersOnThisThread EXCEPT ![t] = 0]
         /\ UNCHANGED m_write_queue

\* mutant: lock() whose upgrade erases the reader entry without m_read_queue.notify_one()
Cv_lock_upgrade_no_notify(t) ==
    /\ pc[t] = "idle"
    /\ UNCHANGED fault
    /\ IF m_writerThreadId = t
       THEN /\ m_writersOwnership' = Inc32(m_writersOwnership)
            /\ UNCHANGED <<pc, m_writerThreadId, m_readerOwnershipBeforeUpgrade, m_readersOwnership,
                           m_write_queue, m_read_queue, readersOnThisThread>>
       ELSE LET upgrade == t \in DOMAIN m_readersOwnership
                n == IF upgrade THEN m_readersOwnership[t] ELSE 0
                rd == MapErase(m_readersOwnership, t)
            IN  Cv_lock_from_wait(t, n, rd, m_read_queue)

Cv_lock(t) ==
    /\ pc[t] = "idle"
    /\ UNCHANGED fault
    /\ IF m_writerThreadId = t
       THEN /\ m_writersOwnership' = Inc32(m_writersOwnership)
            /\ UNCHANGED <<pc, m_writerThreadId, m_readerOwnershipBeforeUpgrade, m_readersOwnership,
                           m_write_queue, m_read_queue, readersOnThisThread>>
       ELSE LET upgrade == t \in DOMAIN m_readersOwnership
                n == IF upgrade THEN m_readersOwnership[t] ELSE 0
                rd == MapErase(m_readersOwnership, t)
                isWriterWating == Gt0(m_writersOwnership)
                isLastReader == DOMAIN rd = {}
            IN  \E rq \in (IF upgrade /\ isWriterWating /\ isLastReader
                           THEN NotifyOne(m_read_queue) ELSE {m_read_queue}) :
                    Cv_lock_from_wait(t, n, rd, rq)

\* m_write_queue.wait(lock) of lock() returns: the loop tests again
Cv_lock_write_queue(t) ==
    /\ pc[t] = "lock:write_queue"
    /\ t \notin m_write_queue
    /\ UNCHANGED fault
    /\ Cv_lock_from_wait(t, readersOnThisThread[t], m_readersOwnership, m_read_queue)

\* mutant: `if` for `while` around m_read_queue.wait(lock): lock() returns on any wake-up
Cv_lock_read_queue_if(t) ==
    /\ pc[t] = "lock:read_queue"
    /\ t \notin m_read_queue
    /\ pc' = [pc EXCEPT ![t] = "idle"]
    /\ readersOnThisThread' = [readersOnThisThread EXCEPT ![t] = 0]
    /\ UNCHANGED <<m_writerThreadId, m_writersOwnership, m_readerOwnershipBeforeUpgrade,
                   m_readersOwnership, m_write_queue, m_read_queue, fault>>

\* m_read_queue.wait(lock) of lock() returns: the loop tests again
Cv_lock_read_queue(t) ==
    /\ pc[t] = "lock:read_queue"
    /\ t \notin m_read_queue
    /\ IF DOMAIN m_readersOwnership # {}
       THEN /\ m_read_queue' = m_read_queue \cup {t}
            /\ UNCHANGED <<pc, readersOnThisThread>>
       ELSE /\ pc' = [pc EXCEPT ![t] = "idle"]
            /\ readersOnThisThread' = [readersOnThisThread EXCEPT ![t] = 0]
            /\ UNCHANGED m_read_queue
    /\ UNCHANGED <<m_writerThreadId, m_writersOwnership, m_readerOwnershipBeforeUpgrade,
                   m_readersOwnership, m_write_queue, fault>>

\* lock_shared() from its `while (m_writersOwnership > 0) m_write_queue.wait(lock)`
Cv_lock_shared_from_wait(t) ==
    IF Gt0(m_writersOwnership)
    THEN /\ pc' = [pc EXCEPT ![t] = "lock_shared:write_queue"]
         /\ m_write_queue' = m_write_queue \cup {t}
         /\ UNCHANGED m_readersOwnership
    ELSE /\ pc' = [pc EXCEPT ![t] = "idle"]
         /\ m_readersOwnership' = IF t \in DOMAIN m_readersOwnership
                                  THEN m_readersOwnership
                                  ELSE MapPut(m_readersOwnership, t, 1)
         /\ UNCHANGED m_write_queue

Cv_lock_shared(t) ==
    /\ pc[t] = "idle"
    /\ UNCHANGED <<m_writerThreadId, m_readerOwnershipBeforeUpgrade, m_read_queue,
                   readersOnThisThread, fault>>
    /\ IF m_writerThreadId = t
       THEN /\ m_writersOwnership' = Inc32(m_writersOwnership)
            /\ UNCHANGED <<pc, m_readersOwnership, m_write_queue>>
       ELSE IF t \in DOMAIN m_readersOwnership
       THEN /\ m_readersOwnership' = [m_readersOwnership EXCEPT ![t] = Inc32(@)]
            /\ UNCHANGED <<pc, m_writersOwnership, m_write_queue>>
       ELSE /\ Cv_lock_shared_from_wait(t)
            /\ UNCHANGED m_writersOwnership

\* mutant: `if` for `while` around m_write_queue.wait(lock) of lock_shared(): the
\* reader enters on any wake-up
Cv_lock_shared_write_queue_if(t) ==
    /\ pc[t] = "lock_shared:write_queue"
    /\ t \notin m_write_queue
    /\ pc' = [pc EXCEPT ![t] = "idle"]
    /\ m_readersOwnership' = MapPut(m_readersOwnership, t, 1)
    /\ UNCHANGED <<m_writerThreadId, m_writersOwnership, m_readerOwnershipBeforeUpgrade,
                   m_write_queue, m_read_queue, readersOnThisThread, fault>>

\* m_write_queue.wait(lock) of lock_shared() returns: the loop tests again
Cv_lock_shared_write_queue(t) ==
    /\ pc[t] = "lock_shared:write_queue"
    /\ t \notin m_write_queue
    /\ Cv_lock_shared_from_wait(t)
    /\ UNCHANGED <<m_writerThreadId, m_writersOwnership, m_readerOwnershipBeforeUpgrade,
                   m_read_queue, readersOnThisThread, fault>>

\* mutant: unlock() that never restores the reader entry saved by the upgrade
Cv_unlock_no_restore(t, ndebug) ==
    /\ pc[t] = "idle"
    /\ UNCHANGED <<m_write_queue, m_read_queue, readersOnThisThread>>
    /\ IF m_writerThreadId # t /\ ~ndebug
       THEN /\ fault' = "assert"
            /\ UNCHANGED <<pc, m_writerThreadId, m_writersOwnership,
                           m_readerOwnershipBeforeUpgrade, m_readersOwnership>>
       ELSE /\ UNCHANGED fault
            /\ IF m_writersOwnership # 1
               THEN /\ m_writersOwnership' = Dec32(m_writersOwnership)
                    /\ UNCHANGED <<pc, m_writerThreadId, m_readerOwnershipBeforeUpgrade,
                                   m_readersOwnership>>
               ELSE /\ m_readerOwnershipBeforeUpgrade' = 0
                    /\ UNCHANGED m_readersOwnership
                    /\ m_writersOwnership' = 0
                    /\ m_writerThreadId' = NoThread
                    /\ pc' = [pc EXCEPT ![t] = "unlock:notify"]

\* mutant: unlock() without the test of the depth: the first unlock() releases
Cv_unlock_ignores_depth(t, ndebug) ==
    /\ pc[t] = "idle"
    /\ UNCHANGED <<m_write_queue, m_read_queue, readersOnThisThread>>
    /\ IF m_writerThreadId # t /\ ~ndebug
       THEN /\ fault' = "assert"
            /\ UNCHANGED <<pc, m_writerThreadId, m_writersOwnership,
                           m_readerOwnershipBeforeUpgrade, m_readersOwnership>>
       ELSE /\ UNCHANGED fault
            /\ IF m_readerOwnershipBeforeUpgrade # 0
               THEN /\ m_readersOwnership' = MapPut(m_readersOwnership, m_writerThreadId,
                                                    m_readerOwnershipBeforeUpgrade)
                    /\ m_readerOwnershipBeforeUpgrade' = 0
               ELSE UNCHANGED <<m_readersOwnership, m_readerOwnershipBeforeUpgrade>>
            /\ m_writersOwnership' = 0
            /\ m_writerThreadId' = NoThread
            /\ pc' = [pc EXCEPT ![t] = "unlock:notify"]

\* unlock().  assert(): with assertions compiled in a failed assert aborts the
\* process, with NDEBUG the statement is empty; ndebug is the build's choice.
\* mutant: unlock() that restores the reader entry of the upgrade but leaves
\* m_readerOwnershipBeforeUpgrade as it is
Cv_unlock_keeps_before_upgrade(t, ndebug) ==
    /\ pc[t] = "idle"
    /\ UNCHANGED <<m_write_queue, m_read_queue, readersOnThisThread>>
    /\ IF m_writerThreadId # t /\ ~ndebug
       THEN /\ fault' = "assert"
            /\ UNCHANGED <<pc, m_writerThreadId, m_writersOwnership,
                           m_readerOwnershipBeforeUpgrade, m_readersOwnership>>
       ELSE /\ UNCHANGED fault
            /\ IF m_writersOwnership # 1
               THEN /\ m_writersOwnership' = Dec32(m_writersOwnership)
                    /\ UNCHANGED <<pc, m_writerThreadId, m_readerOwnershipBeforeUpgrade,
                                   m_readersOwnership>>
               ELSE /\ IF m_readerOwnershipBeforeUpgrade # 0
                       THEN m_readersOwnership' = MapPut(m_readersOwnership, m_writerThreadId,
                                                         m_readerOwnershipBeforeUpgrade)
                       ELSE UNCHANGED m_readersOwnership
                    /\ UNCHANGED m_readerOwnershipBeforeUpgrade
                    /\ m_writersOwnership' = 0
                    /\ m_writerThreadId' = NoThread
                    /\ pc' = [pc EXCEPT ![t] = "unlock:notify"]

\* mutant: unlock() that leaves m_writerThreadId set when the depth reaches 0
Cv_unlock_keeps_owner(t, ndebug) ==
    /\ pc[t] = "idle"
    /\ UNCHANGED <<m_write_queue, m_read_queue, readersOnThisThread>>
    /\ IF m_writerThreadId # t /\ ~ndebug
       THEN /\ fault' = "assert"
            /\ UNCHANGED <<pc, m_writerThreadId, m_writersOwnership,
                           m_readerOwnershipBeforeUpgrade, m_readersOwnership>>
       ELSE /\ UNCHANGED fault
            /\ IF m_writersOwnership # 1
               THEN /\ m_writersOwnership' = Dec32(m_writersOwnership)
                    /\ UNCHANGED <<pc, m_writerThreadId, m_readerOwnershipBeforeUpgrade,
                                   m_readersOwnership>>
               ELSE /\ IF m_readerOwnershipBeforeUpgrade # 0
                       THEN /\ m_readersOwnership' = MapPut(m_readersOwnership, m_writerThreadId,
                                                            m_readerOwnershipBeforeUpgrade)
                            /\ m_readerOwnershipBeforeUpgrade' = 0
                       ELSE UNCHANGED <<m_readersOwnership, m_readerOwnershipBeforeUpgrade>>
                    /\ m_writersOwnership' = 0
                    /\ UNCHANGED m_writerThreadId
                    /\ pc' = [pc EXCEPT ![t] = "unlock:notify"]

Cv_unlock(t, ndebug) ==
    /\ pc[t] = "idle"
    /\ UNCHANGED <<m_write_queue, m_read_queue, readersOnThisThread>>
    /\ IF m_writerThreadId # t /\ ~ndebug
       THEN /\ fault' = "assert"
            /\ UNCHANGED <<pc, m_writerThreadId, m_writersOwnership,
                           m_readerOwnershipBeforeUpgrade, m_readersOwnership>>
       ELSE /\ UNCHANGED fault
            /\ IF m_writersOwnership # 1
               THEN /\ m_writersOwnership' = Dec32(m_writersOwnership)
                    /\ UNCHANGED <<pc, m_writerThreadId, m_readerOwnershipBeforeUpgrade,
                                   m_readersOwnership>>
               ELSE /\ IF m_readerOwnershipBeforeUpgrade # 0
                       THEN /\ m_readersOwnership' = MapPut(m_readersOwnership, m_writerThreadId,
                                                            m_readerOwnershipBeforeUpgrade)
                            /\ m_readerOwnershipBeforeUpgrade' = 0
                       ELSE UNCHANGED <<m_readersOwnership, m_readerOwnershipBeforeUpgrade>>
                    /\ m_writersOwnership' = 0
                    /\ m_writerThreadId' = NoThread
                    /\ pc' = [pc EXCEPT ![t] = "unlock:notify"]

\* m_write_queue.notify_all() of unlock(), after m_mtx was released
Cv_unlock_notify(t) ==
    /\ pc[t] = "unlock:notify"
    /\ m_write_queue' = {}
    /\ pc' = [pc EXCEPT ![t] = "idle"]
    /\ UNCHANGED <<m_writerThreadId, m_writersOwnership, m_readerOwnershipBeforeUpgrade,
                   m_readersOwnership, m_read_queue, readersOnThisThread, fault>>

\* mutant: unlock_shared() that never notifies m_read_queue
Cv_unlock_shared_no_notify(t, ndebug) ==
    /\ pc[t] = "idle"
    /\ UNCHANGED <<m_writerThreadId, m_readerOwnershipBeforeUpgrade, m_write_queue,
                   m_read_queue, readersOnThisThread>>
    /\ IF m_writerThreadId = t
       THEN /\ m_writersOwnership' = Dec32(m_writersOwnership)
            /\ fault' = IF ~Gt0(m_writersOwnership') /\ ~ndebug THEN "assert" ELSE fault
            /\ UNCHANGED <<pc, m_readersOwnership>>
       ELSE IF t \notin DOMAIN m_readersOwnership
       THEN /\ fault' = IF ndebug THEN "ub" ELSE "assert"
            /\ UNCHANGED <<pc, m_writersOwnership, m_readersOwnership>>
       ELSE IF m_readersOwnership[t] # 1
       THEN /\ m_readersOwnership' = [m_readersOwnership EXCEPT ![t] = Dec32(@)]
            /\ UNCHANGED <<pc, m_writersOwnership, fault>>
       ELSE /\ m_readersOwnership' = MapErase(m_readersOwnership, t)
            /\ UNCHANGED <<pc, m_writersOwnership, fault>>

Cv_unlock_shared(t, ndebug) ==
    /\ pc[t] = "idle"
    /\ UNCHANGED <<m_writerThreadId, m_readerOwnershipBeforeUpgrade, m_write_queue,
                   m_read_queue, readersOnThisThread>>
    /\ IF m_writerThreadId = t
       THEN /\ m_writersOwnership' = Dec32(m_writersOwnership)
            /\ fault' = IF ~Gt0(m_writersOwnership') /\ ~ndebug THEN "assert" ELSE fault
            /\ UNCHANGED <<pc, m_readersOwnership>>
       ELSE IF t \notin DOMAIN m_readersOwnership
       THEN \* readerIt == end(): the assert aborts, or end() is dereferenced
            /\ fault' = IF ndebug THEN "ub" ELSE "assert"
            /\ UNCHANGED <<pc, m_writersOwnership, m_readersOwnership>>
       ELSE IF m_readersOwnership[t] # 1
       THEN /\ m_readersOwnership' = [m_readersOwnership EXCEPT ![t] = Dec32(@)]
            /\ UNCHANGED <<pc, m_writersOwnership, fault>>
       ELSE LET rd == MapErase(m_readersOwnership, t)
                isWriterWating == Gt0(m_writersOwnership)
                isLastReader == DOMAIN rd = {}
            IN  /\ m_readersOwnership' = rd
                /\ pc' = [pc EXCEPT ![t] = IF isWriterWating /\ isLastReader
                                           THEN "unlock_shared:notify" ELSE "idle"]
                /\ UNCHANGED <<m_writersOwnership, fault>>

\* m_read_queue.notify_one() of unlock_shared(), after m_mtx was released
Cv_unlock_shared_notify(t) ==
    /\ pc[t] = "unlock_shared:notify"
    /\ m_read_queue' \in NotifyOne(m_read_queue)
    /\ pc' = [pc EXCEPT ![t] = "idle"]
    /\ UNCHANGED <<m_writerThreadId, m_writersOwnership, m_readerOwnershipBeforeUpgrade,
                   m_readersOwnership, m_write_queue, readersOnThisThread, fault>>

\* mutant: try_lock() that tests the writers only and forgets `m_readersOwnership.size() == 0`
Cv_try_lock_ignores_readers(t, r) ==
    /\ pc[t] = "idle"
    /\ UNCHANGED <<pc, m_readerOwnershipBeforeUpgrade, m_readersOwnership, m_write_queue,
                   m_read_queue, readersOnThisThread, fault>>
    /\ IF m_writerThreadId = t
       THEN /\ r = TRUE
            /\ m_writersOwnership' = Inc32(m_writersOwnership)
            /\ UNCHANGED m_writerThreadId
       ELSE IF m_writersOwnership = 0
       THEN /\ r = TRUE
            /\ m_writerThreadId' = t
            /\ m_writersOwnership' = 1
       ELSE /\ r = FALSE
            /\ UNCHANGED <<m_writerThreadId, m_writersOwnership>>

\* mutant: try_lock() that tests the readers only and forgets `&& m_writersOwnership == 0`
Cv_try_lock_ignores_writer(t, r) ==
    /\ pc[t] = "idle"
    /\ UNCHANGED <<pc, m_readerOwnershipBeforeUpgrade, m_readersOwnership, m_write_queue,
                   m_read_queue, readersOnThisThread, fault>>
    /\ IF m_writerThreadId = t
       THEN /\ r = TRUE
            /\ m_writersOwnership' = Inc32(m_writersOwnership)
            /\ UNCHANGED m_writerThreadId
       ELSE IF DOMAIN m_readersOwnership = {}
       THEN /\ r = TRUE
            /\ m_writerThreadId' = t
            /\ m_writersOwnership' = 1
       ELSE /\ r = FALSE
            /\ UNCHANGED <<m_writerThreadId, m_writersOwnership>>

Cv_try_lock(t, r) ==
    /\ pc[t] = "idle"
    /\ UNCHANGED <<pc, m_readerOwnershipBeforeUpgrade, m_readersOwnership, m_write_queue,
                   m_read_queue, readersOnThisThread, fault>>
    /\ IF m_writerThreadId = t
       THEN /\ r = TRUE
            /\ m_writersOwnership' = Inc32(m_writersOwnership)
            /\ UNCHANGED m_writerThreadId
       ELSE IF DOMAIN m_readersOwnership = {} /\ m_writersOwnership = 0
       THEN /\ r = TRUE
            /\ m_writerThreadId' = t
            /\ m_writersOwnership' = 1
       ELSE /\ r = FALSE
            /\ UNCHANGED <<m_writerThreadId, m_writersOwnership>>

\* mutant: try_lock_shared() that takes `auto& n = m_readersOwnership[threadId]`
\* before it tests the writers: a failed call leaves an entry of depth 0
Cv_try_lock_shared_inserts(t, r) ==
    /\ pc[t] = "idle"
    /\ UNCHANGED <<pc, m_writerThreadId, m_readerOwnershipBeforeUpgrade, m_write_queue,
                   m_read_queue, readersOnThisThread, fault>>
    /\ IF m_writerThreadId = t
       THEN /\ r = TRUE
            /\ m_writersOwnership' = Inc32(m_writersOwnership)
            /\ UNCHANGED m_readersOwnership
       ELSE IF m_writersOwnership = 0
       THEN /\ r = TRUE
            /\ m_readersOwnership' = MapPut(m_readersOwnership, t,
                    Inc32(IF t \in DOMAIN m_readersOwnership THEN m_readersOwnership[t] ELSE 0))
            /\ UNCHANGED m_writersOwnership
       ELSE /\ r = FALSE
            /\ m_readersOwnership' = MapPut(m_readersOwnership, t,
                    IF t \in DOMAIN m_readersOwnership THEN m_readersOwnership[t] ELSE 0)
            /\ UNCHANGED m_writersOwnership

Cv_try_lock_shared(t, r) ==
    /\ pc[t] = "idle"
    /\ UNCHANGED <<pc, m_writerThreadId, m_readerOwnershipBeforeUpgrade, m_write_queue,
                   m_read_queue, readersOnThisThread, fault>>
    /\ IF m_writerThreadId = t
       THEN /\ r = TRUE
            /\ m_writersOwnership' = Inc32(m_writersOwnership)
            /\ UNCHANGED m_readersOwnership
       ELSE IF m_writersOwnership = 0
       THEN /\ r = TRUE
            /\ m_readersOwnership' = MapPut(m_readersOwnership, t,
                    Inc32(IF t \in DOMAIN m_readersOwnership THEN m_readersOwnership[t] ELSE 0))
            /\ UNCHANGED m_writersOwnership
       ELSE /\ r = FALSE
            /\ UNCHANGED <<m_writersOwnership, m_readersOwnership>>

\* a wait() may return without a notify (spurious wake-up)
SpuriousWakeup(t) ==
    /\ t \in m_write_queue \cup m_read_queue
    /\ m_write_queue' = m_write_queue \ {t}
    /\ m_read_queue' = m_read_queue \ {t}
    /\ UNCHANGED <<pc, m_writerThreadId, m_writersOwnership, m_readerOwnershipBeforeUpgrade,
                   m_readersOwnership, readersOnThisThread, fault>>

\* ------------- recursive_shared_mutex of shared_recursive_mutex.cpp (R)
\* The members _writerThreadId, _writersOwnership, _readersOwnership,
\* _write_queue and _read_queue are held by the variables of the same names
\* with the prefix m_; the class has no m_readerOwnershipBeforeUpgrade, which
\* stays 0.  lock() and unlock() differ from the header's class; the other
\* four member functions are the same statements under the other names.

\* lock() from `while (_writersOwnership > 0) _write_queue.wait(lock)` to its
\* return or next wait
Rsm_lock_from_wait(t) ==
    /\ UNCHANGED <<m_readersOwnership, m_readerOwnershipBeforeUpgrade, readersOnThisThread>>
    /\ IF Gt0(m_writersOwnership)
       THEN /\ pc' = [pc EXCEPT ![t] = "lock:write_queue"]
            /\ m_write_queue' = m_write_queue \cup {t}
            /\ UNCHANGED <<m_writerThreadId, m_writersOwnership, m_read_queue>>
       ELSE /\ m_writerThreadId' = t
            /\ m_writersOwnership' = 1
            /\ IF DOMAIN m_readersOwnership # {}
               THEN /\ pc' = [pc EXCEPT ![t] = "lock:read_queue"]
                    /\ m_read_queue' = m_read_queue \cup {t}
               ELSE /\ pc' = [pc EXCEPT ![t] = "idle"]
                    /\ UNCHANGED m_read_queue
            /\ UNCHANGED m_write_queue

Rsm_lock(t) ==
    /\ pc[t] = "idle"
    /\ UNCHANGED fault
    /\ IF m_writerThreadId = t
       THEN /\ m_writersOwnership' = Inc32(m_writersOwnership)
            /\ UNCHANGED <<pc, m_writerThreadId, m_readerOwnershipBeforeUpgrade, m_readersOwnership,
                           m_write_queue, m_read_queue, readersOnThisThread>>
       ELSE Rsm_lock_from_wait(t)

\* _write_queue.wait(lock) of lock() returns: the loop tests again
Rsm_lock_write_queue(t) ==
    /\ pc[t] = "lock:write_queue"
    /\ t \notin m_write_queue
    /\ UNCHANGED fault
    /\ Rsm_lock_from_wait(t)

\* _read_queue.wait(lock) of lock() returns: the loop tests again
Rsm_lock_read_queue(t) ==
    /\ pc[t] = "lock:read_queue"
    /\ t \notin m_read_queue
    /\ IF DOMAIN m_readersOwnership # {}
       THEN /\ m_read_queue' = m_read_queue \cup {t}
            /\ UNCHANGED pc
       ELSE /\ pc' = [pc EXCEPT ![t] = "idle"]
            /\ UNCHANGED m_read_queue
    /\ UNCHANGED <<m_writerThreadId, m_writersOwnership, m_readerOwnershipBeforeUpgrade,
                   m_readersOwnership, m_write_queue, readersOnThisThread, fault>>

Rsm_lock_shared(t) == Cv_lock_shared(t)
Rsm_lock_shared_write_queue(t) == Cv_lock_shared_write_queue(t)

Rsm_unlock(t, ndebug) ==
    /\ pc[t] = "idle"
    /\ UNCHANGED <<m_readerOwnershipBeforeUpgrade, m_readersOwnership, m_write_queue,
                   m_read_queue, readersOnThisThread>>
    /\ IF m_writerThreadId # t /\ ~ndebug
       THEN /\ fault' = "assert"
            /\ UNCHANGED <<pc, m_writerThreadId, m_writersOwnership>>
       ELSE /\ UNCHANGED fault
            /\ IF m_writersOwnership # 1
               THEN /\ m_writersOwnership' = Dec32(m_writersOwnership)
                    /\ UNCHANGED <<pc, m_writerThreadId>>
               ELSE /\ m_writersOwnership' = 0
                    /\ m_writerThreadId' = NoThread
                    /\ pc' = [pc EXCEPT ![t] = "unlock:notify"]

\* _write_queue.notify_all() of unlock(), after _mtx was released
Rsm_unlock_notify(t) == Cv_unlock_notify(t)
Rsm_unlock_shared(t, ndebug) == Cv_unlock_shared(t, ndebug)
\* _read_queue.notify_one() of unlock_shared(), after _mtx was released
Rsm_unlock_shared_notify(t) == Cv_unlock_shared_notify(t)
Rsm_try_lock(t, r) == Cv_try_lock(t, r)
Rsm_try_lock_shared(t, r) == Cv_try_lock_shared(t, r)

\* ------------------------------------------------------------- the callers
\* test.cpp, poor_mans_fuzzing: the body of iteration i, as the calls that the
\* guards' constructors and destructors make; counter++ is a load and a store
Pattern(k) ==
    CASE k = 0 -> <<"lock", "load", "store+1", "lock_shared", "unlock_shared", "unlock">>
      [] k = 1 -> <<"lock_shared", "lock", "load", "store+1", "unlock", "unlock_shared">>
      [] k = 2 -> <<"lock", "load", "store-1", "lock", "load", "store+2", "lock_shared",
                    "unlock_shared", "unlock", "unlock">>
      [] OTHER -> <<"lock_shared", "lock_shared", "lock", "load", "store+1", "unlock",
                    "unlock_shared", "unlock_shared">>

PatternOf(i) ==
    IF i % 4 = 0 THEN 0
    ELSE IF i % 3 = 0 THEN 1
    ELSE IF i % 2 = 0 THEN 2
    ELSE 3

Finished(t) == iter[t] = NumIterations

\* the call thread t makes next in the test loop
Instr(t) == IF Finished(t) THEN "return" ELSE Pattern(PatternOf(iter[t]))[ip[t]]

Top(stk) == IF stk = <<>> THEN "-" ELSE stk[Len(stk)]
Pop(stk) == SubSeq(stk, 1, Len(stk) - 1)
HasW(stk) == \E i \in 1..Len(stk) : stk[i] = "W"
HasR(stk) == \E i \in 1..Len(stk) : stk[i] = "R"
\* the guards left when the guard of kind k taken last is destroyed (the top
\* one for a nested caller); a caller without such a guard has none to destroy
Release(stk, k) ==
    IF \E i \in 1..Len(stk) : stk[i] = k
    THEN LET i == CHOOSE j \in 1..Len(stk) : stk[j] = k /\ \A l \in (j + 1)..Len(stk) : stk[l] # k
         IN  SubSeq(stk, 1, i - 1) \o SubSeq(stk, i + 1, Len(stk))
    ELSE stk

\* a free caller nests its guards: it releases the guard it took last
FreeCalls(t, op) ==
    CASE op \in {"lock", "lock_shared", "try_lock", "try_lock_shared"} -> Len(held[t]) < MaxDepth
      [] op = "unlock" -> Top(held[t]) = "W"
      [] op = "unlock_shared" -> Top(held[t]) = "R"
      [] OTHER -> FALSE

\* no counter has wrapped below zero and no undefined behaviour was executed:
\* callers that are not held to nested guards are followed up to the first
\* such event and no further (a bound on the exploration)
Sound ==
    /\ fault = "none"
    /\ \A u \in Threads : g_readers[u] >= 0 /\ g_writers[u] >= 0
    /\ m_writersOwnership >= 0
    /\ \A k \in DOMAIN m_readersOwnership : m_readersOwnership[k] >= 0

\* a balanced caller releases each guard it owns once, in any order
BalancedCalls(t, op) ==
    /\ Sound
    /\ CASE op \in {"lock", "lock_shared", "try_lock", "try_lock_shared"} -> Len(held[t]) < MaxDepth
         [] op = "unlock" -> HasW(held[t])
         [] op = "unlock_shared" -> HasR(held[t])
         [] OTHER -> FALSE

\* an unchecked caller releases whenever it likes, guard or no guard
AnyCalls(t, op) ==
    /\ Sound
    /\ CASE op \in {"lock", "lock_shared", "try_lock", "try_lock_shared"} -> Len(held[t]) < MaxDepth
         [] op \in {"unlock", "unlock_shared"} -> TRUE
         [] OTHER -> FALSE

\* thread t is outside every member function and calls op now
Calls(t, op) ==
    /\ fault # "assert"
    /\ pc[t] = "idle"
    /\ CASE driver = "free" -> FreeCalls(t, op)
         [] driver = "balanced" -> BalancedCalls(t, op)
         [] driver = "any" -> AnyCalls(t, op)
         [] OTHER -> Instr(t) = op

\* thread t is inside member function op, which goes on
Resumes(t, ops) ==
    /\ fault # "assert"
    /\ pc[t] \in ops

Advance(t) ==
    IF driver = "test"
    THEN IF ip[t] = Len(Pattern(PatternOf(iter[t])))
         THEN /\ iter' = [iter EXCEPT ![t] = @ + 1]
              /\ ip' = [ip EXCEPT ![t] = 1]
         ELSE /\ ip' = [ip EXCEPT ![t] = @ + 1]
              /\ UNCHANGED iter
    ELSE UNCHANGED <<iter, ip>>

\* what the caller notes when (and if) the member function returns in this step
Returns(t, name, stk) ==
    IF pc'[t] = "idle"
    THEN /\ held' = [held EXCEPT ![t] = stk]
         /\ last' = IF driver = "free" THEN <<t, name>> ELSE last
         /\ Advance(t)
    ELSE UNCHANGED <<held, last, iter, ip>>

OpOf(p) ==
    CASE p \in {"lock:mtx", "lock:write_queue", "lock:read_queue"} -> "lock"
      [] p \in {"lock_shared:mtx", "lock_shared:write_queue"} -> "lock_shared"
      [] p \in {"unlock:mtx", "unlock:notify"} -> "unlock"
      [] p \in {"unlock_shared:mtx", "unlock_shared:notify"} -> "unlock_shared"
      [] OTHER -> "none"

After(t, op) ==
    CASE op = "lock" -> Returns(t, "lock", Append(held[t], "W"))
      [] op = "lock_shared" -> Returns(t, "lock_shared", Append(held[t], "R"))
      [] op = "unlock" -> Returns(t, op, Release(held[t], "W"))
      [] OTHER -> Returns(t, op, Release(held[t], "R"))

AfterTry(t, op, r) ==
    /\ held' = [held EXCEPT ![t] = IF ~r THEN @ ELSE Append(@, IF op = "try_lock" THEN "W" ELSE "R")]
    /\ last' = IF driver = "free" THEN <<t, op \o (IF r THEN ":true" ELSE ":false")>> ELSE last
    /\ UNCHANGED <<iter, ip>>

\* counter++ / counter-- / counter += 2 of the test loop: a load, then a store
Load(t) ==
    /\ Calls(t, "load")
    /\ reg' = [reg EXCEPT ![t] = counter]
    /\ Advance(t)
    /\ UNCHANGED <<variant, driver, pc, held, last, gVars, fVars, fault, counter>>

Store(t) ==
    /\ \E d \in {-1, 1, 2} :
          /\ Calls(t, IF d = -1 THEN "store-1" ELSE IF d = 1 THEN "store+1" ELSE "store+2")
          /\ counter' = reg[t] + d
    /\ reg' = [reg EXCEPT ![t] = 0]
    /\ Advance(t)
    /\ UNCHANGED <<variant, driver, pc, held, last, gVars, fVars, fault>>

\* ---- the actions of variant G
G_lock(t) ==
    /\ variant = "G" /\ Calls(t, "lock")
    /\ Global_lock(t) /\ After(t, "lock")
    /\ UNCHANGED <<variant, driver, fVars, counter, reg>>

G_lock_mtx(t) ==
    /\ variant = "G" /\ Resumes(t, {"lock:mtx"})
    /\ Global_lock_mtx(t) /\ After(t, "lock")
    /\ UNCHANGED <<variant, driver, fVars, counter, reg>>

G_lock_shared(t) ==
    /\ variant = "G" /\ Calls(t, "lock_shared")
    /\ Global_lock_shared(t) /\ After(t, "lock_shared")
    /\ UNCHANGED <<variant, driver, fVars, counter, reg>>

G_lock_shared_mtx(t) ==
    /\ variant = "G" /\ Resumes(t, {"lock_shared:mtx"})
    /\ Global_lock_shared_mtx(t) /\ After(t, "lock_shared")
    /\ UNCHANGED <<variant, driver, fVars, counter, reg>>

G_unlock(t) ==
    /\ variant = "G" /\ Calls(t, "unlock")
    /\ Global_unlock(t) /\ After(t, "unlock")
    /\ UNCHANGED <<variant, driver, fVars, counter, reg>>

G_unlock_shared(t) ==
    /\ variant = "G" /\ Calls(t, "unlock_shared")
    /\ Global_unlock_shared(t) /\ After(t, "unlock_shared")
    /\ UNCHANGED <<variant, driver, fVars, counter, reg>>

G_unlock_mtx(t) ==
    /\ variant = "G" /\ Resumes(t, {"unlock:mtx", "unlock_shared:mtx"})
    /\ Global_unlock_mtx(t) /\ After(t, OpOf(pc[t]))
    /\ UNCHANGED <<variant, driver, fVars, counter, reg>>

G_try_lock(t) ==
    /\ variant = "G" /\ Calls(t, "try_lock")
    /\ \E r \in BOOLEAN : Global_try_lock(t, r) /\ AfterTry(t, "try_lock", r)
    /\ UNCHANGED <<variant, driver, fVars, counter, reg>>

G_try_lock_shared(t) ==
    /\ variant = "G" /\ Calls(t, "try_lock_shared")
    /\ \E r \in BOOLEAN : Global_try_lock_shared(t, r) /\ AfterTry(t, "try_lock_shared", r)
    /\ UNCHANGED <<variant, driver, fVars, counter, reg>>

\* ---- the actions of variant F
F_lock(t) ==
    /\ variant = "F" /\ Calls(t, "lock")
    /\ Cv_lock(t) /\ After(t, "lock")
    /\ UNCHANGED <<variant, driver, gVars, counter, reg>>

F_lock_write_queue(t) ==
    /\ variant = "F" /\ Resumes(t, {"lock:write_queue"})
    /\ Cv_lock_write_queue(t) /\ After(t, "lock")
    /\ UNCHANGED <<variant, driver, gVars, counter, reg>>

F_lock_read_queue(t) ==
    /\ variant = "F" /\ Resumes(t, {"lock:read_queue"})
    /\ Cv_lock_read_queue(t) /\ After(t, "lock")
    /\ UNCHANGED <<variant, driver, gVars, counter, reg>>

F_lock_shared(t) ==
    /\ variant = "F" /\ Calls(t, "lock_shared")
    /\ Cv_lock_shared(t) /\ After(t, "lock_shared")
    /\ UNCHANGED <<variant, driver, gVars, counter, reg>>

F_lock_shared_write_queue(t) ==
    /\ variant = "F" /\ Resumes(t, {"lock_shared:write_queue"})
    /\ Cv_lock_shared_write_queue(t) /\ After(t, "lock_shared")
    /\ UNCHANGED <<variant, driver, gVars, counter, reg>>

F_unlock(t) ==
    /\ variant = "F" /\ Calls(t, "unlock")
    /\ \E ndebug \in BOOLEAN : Cv_unlock(t, ndebug)
    /\ After(t, "unlock")
    /\ UNCHANGED <<variant, driver, gVars, counter, reg>>

F_unlock_notify(t) ==
    /\ variant = "F" /\ Resumes(t, {"unlock:notify"})
    /\ Cv_unlock_notify(t) /\ After(t, "unlock")
    /\ UNCHANGED <<variant, driver, gVars, counter, reg>>

F_unlock_shared(t) ==
    /\ variant = "F" /\ Calls(t, "unlock_shared")
    /\ \E ndebug \in BOOLEAN : Cv_unlock_shared(t, ndebug)
    /\ After(t, "unlock_shared")
    /\ UNCHANGED <<variant, driver, gVars, counter, reg>>

F_unlock_shared_notify(t) ==
    /\ variant = "F" /\ Resumes(t, {"unlock_shared:notify"})
    /\ Cv_unlock_shared_notify(t) /\ After(t, "unlock_shared")
    /\ UNCHANGED <<variant, driver, gVars, counter, reg>>

F_try_lock(t) ==
    /\ variant = "F" /\ Calls(t, "try_lock")
    /\ \E r \in BOOLEAN : Cv_try_lock(t, r) /\ AfterTry(t, "try_lock", r)
    /\ UNCHANGED <<variant, driver, gVars, counter, reg>>

F_try_lock_shared(t) ==
    /\ variant = "F" /\ Calls(t, "try_lock_shared")
    /\ \E r \in BOOLEAN : Cv_try_lock_shared(t, r) /\ AfterTry(t, "try_lock_shared", r)
    /\ UNCHANGED <<variant, driver, gVars, counter, reg>>

F_spurious(t) ==
    /\ variant = "F" /\ fault # "assert"
    /\ SpuriousWakeup(t)
    /\ UNCHANGED <<variant, driver, held, last, gVars, testVars>>

\* ---- the actions of variant R
R_lock(t) ==
    /\ variant = "R" /\ Calls(t, "lock")
    /\ Rsm_lock(t) /\ After(t, "lock")
    /\ UNCHANGED <<variant, driver, gVars, counter, reg>>

R_lock_write_queue(t) ==
    /\ variant = "R" /\ Resumes(t, {"lock:write_queue"})
    /\ Rsm_lock_write_queue(t) /\ After(t, "lock")
    /\ UNCHANGED <<variant, driver, gVars, counter, reg>>

R_lock_read_queue(t) ==
    /\ variant = "R" /\ Resumes(t, {"lock:read_queue"})
    /\ Rsm_lock_read_queue(t) /\ After(t, "lock")
    /\ UNCHANGED <<variant, driver, gVars, counter, reg>>

R_lock_shared(t) ==
    /\ variant = "R" /\ Calls(t, "lock_shared")
    /\ Rsm_lock_shared(t) /\ After(t, "lock_shared")
    /\ UNCHANGED <<variant, driver, gVars, counter, reg>>

R_lock_shared_write_queue(t) ==
    /\ variant = "R" /\ Resumes(t, {"lock_shared:write_queue"})
    /\ Rsm_lock_shared_write_queue(t) /\ After(t, "lock_shared")
    /\ UNCHANGED <<variant, driver, gVars, counter, reg>>

R_unlock(t) ==
    /\ variant = "R" /\ Calls(t, "unlock")
    /\ \E ndebug \in BOOLEAN : Rsm_unlock(t, ndebug)
    /\ After(t, "unlock")
    /\ UNCHANGED <<variant, driver, gVars, counter, reg>>

R_unlock_notify(t) ==
    /\ variant = "R" /\ Resumes(t, {"unlock:notify"})
    /\ Rsm_unlock_notify(t) /\ After(t, "unlock")
    /\ UNCHANGED <<variant, driver, gVars, counter, reg>>

R_unlock_shared(t) ==
    /\ variant = "R" /\ Calls(t, "unlock_shared")
    /\ \E ndebug \in BOOLEAN : Rsm_unlock_shared(t, ndebug)
    /\ After(t, "unlock_shared")
    /\ UNCHANGED <<variant, driver, gVars, counter, reg>>

R_unlock_shared_notify(t) ==
    /\ variant = "R" /\ Resumes(t, {"unlock_shared:notify"})
    /\ Rsm_unlock_shared_notify(t) /\ After(t, "unlock_shared")
    /\ UNCHANGED <<variant, driver, gVars, counter, reg>>

R_try_lock(t) ==
    /\ variant = "R" /\ Calls(t, "try_lock")
    /\ \E r \in BOOLEAN : Rsm_try_lock(t, r) /\ AfterTry(t, "try_lock", r)
    /\ UNCHANGED <<variant, driver, gVars, counter, reg>>

R_try_lock_shared(t) ==
    /\ variant = "R" /\ Calls(t, "try_lock_shared")
    /\ \E r \in BOOLEAN : Rsm_try_lock_shared(t, r) /\ AfterTry(t, "try_lock_shared", r)
    /\ UNCHANGED <<variant, driver, gVars, counter, reg>>

R_spurious(t) ==
    /\ variant = "R" /\ fault # "assert"
    /\ SpuriousWakeup(t)
    /\ UNCHANGED <<variant, driver, held, last, gVars, testVars>>

\* ------------------------------------------------------- specifications
InitLock ==
    /\ pc = [t \in Threads |-> "idle"]
    /\ held = [t \in Threads |-> <<>>]
    /\ last = <<NoThread, "none">>
    /\ g_readers = [t \in Threads |-> 0]
    /\ g_writers = [t \in Threads |-> 0]
    /\ m_sharedMtx = [owner |-> NoThread, shared |-> {}]
    /\ m_writerThreadId = NoThread
    /\ m_writersOwnership = 0
    /\ m_readerOwnershipBeforeUpgrade = 0
    /\ m_readersOwnership = <<>>
    /\ m_write_queue = {}
    /\ m_read_queue = {}
    /\ readersOnThisThread = [t \in Threads |-> 0]
    /\ fault = "none"
    /\ iter = [t \in Threads |-> 0]
    /\ ip = [t \in Threads |-> 1]
    /\ counter = 0
    /\ reg = [t \in Threads |-> 0]

NextG ==
    \E t \in Threads :
        \/ G_lock(t) \/ G_lock_mtx(t) \/ G_lock_shared(t) \/ G_lock_shared_mtx(t)
        \/ G_unlock(t) \/ G_unlock_shared(t) \/ G_unlock_mtx(t)
        \/ G_try_lock(t) \/ G_try_lock_shared(t)

NextF ==
    \E t \in Threads :
        \/ F_lock(t) \/ F_lock_write_queue(t) \/ F_lock_read_queue(t)
        \/ F_lock_shared(t) \/ F_lock_shared_write_queue(t)
        \/ F_unlock(t) \/ F_unlock_notify(t) \/ F_unlock_shared(t) \/ F_unlock_shared_notify(t)
        \/ F_try_lock(t) \/ F_try_lock_shared(t) \/ F_spurious(t)

\* both classes, free callers
Init == variant \in {"G", "F"} /\ driver = "free" /\ InitLock
Next == NextG \/ NextF
Spec == Init /\ [][Next]_vars

\* shared_recursive_mutex_t alone, free callers
InitG == variant = "G" /\ driver = "free" /\ InitLock
SpecG == InitG /\ [][NextG]_vars

\* the condition-variable shared_recursive_mutex alone, free callers
InitF == variant = "F" /\ driver = "free" /\ InitLock
SpecF == InitF /\ [][NextF]_vars

\* shared_recursive_mutex_t under the loop of test.cpp (poor_mans_fuzzing)
InitTestG == variant = "G" /\ driver = "test" /\ InitLock
NextTestG ==
    \E t \in Threads :
        \/ G_lock(t) \/ G_lock_mtx(t) \/ G_lock_shared(t) \/ G_lock_shared_mtx(t)
        \/ G_unlock(t) \/ G_unlock_shared(t) \/ G_unlock_mtx(t)
        \/ Load(t) \/ Store(t)
SpecTestG == InitTestG /\ [][NextTestG]_vars

\* A fair scheduler: a thread that can go on does.  A fair std::shared_mutex:
\* a thread blocked on it gets it if it stays available.
StepG(t) ==
    \/ G_lock(t) \/ G_lock_mtx(t) \/ G_lock_shared(t) \/ G_lock_shared_mtx(t)
    \/ G_unlock(t) \/ G_unlock_shared(t) \/ G_unlock_mtx(t)
    \/ Load(t) \/ Store(t)
FairTestG == InitTestG /\ [][NextTestG]_vars /\ \A t \in Threads : WF_vars(StepG(t))

\* the condition-variable shared_recursive_mutex under the same loop
InitTestF == variant = "F" /\ driver = "test" /\ InitLock
NextTestF ==
    \E t \in Threads :
        \/ F_lock(t) \/ F_lock_write_queue(t) \/ F_lock_read_queue(t)
        \/ F_lock_shared(t) \/ F_lock_shared_write_queue(t)
        \/ F_unlock(t) \/ F_unlock_notify(t) \/ F_unlock_shared(t) \/ F_unlock_shared_notify(t)
        \/ F_spurious(t)
        \/ Load(t) \/ Store(t)
\* A fair scheduler: a thread that is not blocked in wait() goes on.  No
\* fairness for F_spurious: a wait() need not return without a notify.
StepF(t) ==
    \/ F_lock(t) \/ F_lock_write_queue(t) \/ F_lock_read_queue(t)
    \/ F_lock_shared(t) \/ F_lock_shared_write_queue(t)
    \/ F_unlock(t) \/ F_unlock_notify(t) \/ F_unlock_shared(t) \/ F_unlock_shared_notify(t)
    \/ Load(t) \/ Store(t)
FairTestF == InitTestF /\ [][NextTestF]_vars /\ \A t \in Threads : WF_vars(StepF(t))

\* both classes under callers that are not held to nested guards: balanced
\* releases in any order, or unchecked releases
InitCallers == variant \in {"G", "F"} /\ driver \in {"balanced", "any"} /\ InitLock
SpecCallers == InitCallers /\ [][Next]_vars

\* recursive_shared_mutex of shared_recursive_mutex.cpp alone, free callers
InitR == variant = "R" /\ driver = "free" /\ InitLock
NextR ==
    \E t \in Threads :
        \/ R_lock(t) \/ R_lock_write_queue(t) \/ R_lock_read_queue(t)
        \/ R_lock_shared(t) \/ R_lock_shared_write_queue(t)
        \/ R_unlock(t) \/ R_unlock_notify(t) \/ R_unlock_shared(t) \/ R_unlock_shared_notify(t)
        \/ R_try_lock(t) \/ R_try_lock_shared(t) \/ R_spurious(t)
SpecR == InitR /\ [][NextR]_vars

\* ------------------------------------------------------------ the claims
\* What a thread holds, by its own account: it is outside every member
\* function and owns guards taken by calls that returned.
Holds(t) == pc[t] = "idle" /\ held[t] # <<>>
HoldsExclusive(t) == pc[t] = "idle" /\ HasW(held[t])
HoldsShared(t) == pc[t] = "idle" /\ held[t] # <<>> /\ ~HasW(held[t])
Blocked(t) == pc[t] \in {"lock:mtx", "lock_shared:mtx", "unlock:mtx", "unlock_shared:mtx",
                         "lock:write_queue", "lock:read_queue", "lock_shared:write_queue"}

\* C1: in the condition-variable class no two distinct threads hold exclusive
\* access at once (between the return of lock() or of a successful try_lock()
\* and the call of the matching final unlock()).
C1_MutualExclusionCv ==
    variant = "F" =>
        \A t, u \in Threads : t # u => ~(HoldsExclusive(t) /\ HoldsExclusive(u))

\* a thread holds exclusive access while another one is blocked inside lock()
C1_Witness ==
    /\ variant = "F"
    /\ \E t, u \in Threads :
          /\ t # u /\ HoldsExclusive(t)
          /\ pc[u] = "lock:write_queue" /\ u \in m_write_queue

\* C2: in the condition-variable class, while a thread holds exclusive access
\* the reader table has no entry of another thread and no other thread holds
\* shared access.
C2_ExclusiveExcludesReadersCv ==
    variant = "F" =>
        \A t \in Threads : HoldsExclusive(t) =>
            /\ DOMAIN m_readersOwnership \subseteq {t}
            /\ \A u \in Threads \ {t} : ~HoldsShared(u)

\* a thread is back from lock() and holds exclusive access while another
\* thread is blocked inside lock_shared()
C2_Witness ==
    /\ variant = "F"
    /\ \E t, u \in Threads :
          /\ t # u /\ HoldsExclusive(t) /\ last = <<t, "lock">>
          /\ pc[u] = "lock_shared:write_queue"

\* C3: in shared_recursive_mutex_t, when a thread outside every member function
\* has g_writers > 0, no other thread outside every member function has
\* g_writers > 0 or holds shared access (g_readers > 0 with g_writers == 0).
C3_ExclusionGlobal ==
    variant = "G" =>
        \A t, u \in Threads :
            (t # u /\ pc[t] = "idle" /\ Gt0(g_writers[t]) /\ pc[u] = "idle") =>
                /\ ~Gt0(g_writers[u])
                /\ ~Global_is_locked_shared(u)

\* a thread holds exclusive access while another one, which held shared access
\* and asked for the upgrade, is blocked on the mutex
C3_Witness ==
    /\ variant = "G"
    /\ \E t, u \in Threads :
          /\ t # u /\ pc[t] = "idle" /\ Gt0(g_writers[t])
          /\ pc[u] = "lock:mtx" /\ Gt0(g_readers[u])

\* C4: a thread that holds exclusive access and calls lock() again returns
\* without waiting, and as long as one of its N lock() calls is not yet
\* undone by an unlock() no other thread holds the lock in any mode.
LockReturnsAtOnce(t) == (G_lock(t) \/ F_lock(t)) /\ pc'[t] = "idle"
C4_Reentrancy ==
    \A t \in Threads : HoldsExclusive(t) =>
        /\ Len(held[t]) < MaxDepth => ENABLED LockReturnsAtOnce(t)
        /\ \A u \in Threads \ {t} : ~Holds(u)

\* after lock(), lock(), unlock() a thread still holds exclusive access and
\* another thread that asked for the lock is still blocked
C4_Witness ==
    \E t, u \in Threads :
        /\ t # u /\ held[t] = <<"W">> /\ pc[t] = "idle" /\ last = <<t, "unlock">>
        /\ Blocked(u)

\* C5: a thread with shared access at depth D and no exclusive access that
\* calls lock() and then unlock() holds shared access at depth D again when
\* unlock() returns.
SharedDepthIs(t, d) ==
    IF variant = "G"
    THEN g_writers[t] = 0 /\ g_readers[t] = d /\ t \in m_sharedMtx.shared
    ELSE /\ m_writerThreadId # t
         /\ t \in DOMAIN m_readersOwnership
         /\ m_readersOwnership[t] = d
C5_UpgradeRoundTrip ==
    \A t \in Threads :
        (last = <<t, "unlock">> /\ HoldsShared(t)) => SharedDepthIs(t, Len(held[t]))

\* a thread is back from lock(), unlock() at depth 2 while another thread that
\* holds shared access is inside its own upgrade
C5_Witness ==
    \E t, u \in Threads :
        /\ t # u /\ last = <<t, "unlock">> /\ pc[t] = "idle" /\ held[t] = <<"R", "R">>
        /\ held[u] # <<>> /\ ~HasW(held[u])
        /\ pc[u] \in {"lock:mtx", "lock:write_queue", "lock:read_queue"}

\* C6: under the loop of test.cpp on shared_recursive_mutex_t no update of the
\* counter is lost: the counter is the sum of the changes the threads have
\* stored, and when all threads are through it is one per iteration.
DeltaOf(instr) ==
    CASE instr = "store+1" -> 1
      [] instr = "store-1" -> -1
      [] instr = "store+2" -> 2
      [] OTHER -> 0
RECURSIVE StoredIn(_, _)
\* the changes stored by the first n instructions of pattern p
StoredIn(p, n) == IF n = 0 THEN 0 ELSE StoredIn(p, n - 1) + DeltaOf(p[n])
RECURSIVE StoredUpTo(_)
\* the changes stored by iterations 0 .. i-1
StoredUpTo(i) ==
    IF i = 0 THEN 0
    ELSE StoredUpTo(i - 1) + StoredIn(Pattern(PatternOf(i - 1)), Len(Pattern(PatternOf(i - 1))))
StoredBy(t) ==
    StoredUpTo(iter[t])
    + (IF Finished(t) THEN 0 ELSE StoredIn(Pattern(PatternOf(iter[t])), ip[t] - 1))
RECURSIVE StoredByAll(_)
StoredByAll(S) ==
    IF S = {} THEN 0
    ELSE LET t == CHOOSE x \in S : TRUE IN StoredBy(t) + StoredByAll(S \ {t})
AllFinished == \A t \in Threads : Finished(t)
C6_NoLostUpdate ==
    /\ counter = StoredByAll(Threads)
    /\ AllFinished => counter = NumThreads * NumIterations

\* all threads are through their loops
C6_Witness == AllFinished /\ counter = NumThreads * NumIterations

\* C7: under the loop of test.cpp on shared_recursive_mutex_t, with a fair
\* scheduler and mutex, no state is a deadlock and every thread gets through
\* its loop.
C7_NoDeadlockTermination ==
    /\ [](AllFinished \/ ENABLED NextTestG)
    /\ <>[]AllFinished

\* two threads that hold shared access are inside lock() at the same time
C7_Witness ==
    \E t, u \in Threads :
        /\ t # u /\ variant = "G"
        /\ pc[t] = "lock:mtx" /\ Gt0(g_readers[t])
        /\ pc[u] = "lock:mtx" /\ Gt0(g_readers[u])

\* C8: under the same loop on the condition-variable class, with a fair
\* scheduler and no help from spurious wake-ups, every thread gets through its
\* loop and stays outside the member functions: every call of lock() and
\* lock_shared() that waited has returned, no wake-up was lost.
Waiting(t) == pc[t] \in {"lock:write_queue", "lock:read_queue", "lock_shared:write_queue"}
C8_EveryCallReturns ==
    <>[](\A t \in Threads : Finished(t) /\ ~Waiting(t) /\ pc[t] = "idle")

\* two threads that held shared access are inside lock() at the same time: one
\* is registered as the writer and was notified by the upgrade of the other
C8_Witness ==
    \E t, u \in Threads :
        /\ t # u /\ variant = "F"
        /\ pc[t] = "lock:read_queue" /\ readersOnThisThread[t] > 0 /\ t \notin m_read_queue
        /\ pc[u] = "lock:write_queue" /\ readersOnThisThread[u] > 0

\* C9: threads share: a thread that asks for shared access while another
\* thread holds shared access (and no writer is registered) gets it without
\* waiting for that thread.
LockSharedReturnsAtOnce(u) == F_lock_shared(u) /\ pc'[u] = "idle"
C9_SharedCoexistence ==
    \A t, u \in Threads : (t # u /\ HoldsShared(t)) =>
        /\ (variant = "G" /\ pc[u] = "lock_shared:mtx") => ENABLED G_lock_shared_mtx(u)
        /\ (variant = "F" /\ pc[u] = "idle" /\ held[u] = <<>> /\ m_writersOwnership = 0)
              => ENABLED LockSharedReturnsAtOnce(u)

\* two threads hold shared access at once, the second fresh from lock_shared()
C9_Witness ==
    \E t, u \in Threads :
        t # u /\ HoldsShared(t) /\ HoldsShared(u) /\ last = <<u, "lock_shared">>

\* C10: try_lock() and try_lock_shared() can always be taken by a thread that
\* is outside the member functions (they never wait), and a call that returns
\* false changes nothing of the ownership state.
Ownership == <<g_readers, g_writers, m_sharedMtx, m_writerThreadId, m_writersOwnership,
               m_readersOwnership, m_readerOwnershipBeforeUpgrade>>
TryLockCall(t) == G_try_lock(t) \/ F_try_lock(t)
TryLockSharedCall(t) == G_try_lock_shared(t) \/ F_try_lock_shared(t)
FailedTryChanges(t) ==
    /\ TryLockCall(t) \/ TryLockSharedCall(t)
    /\ last'[2] \in {"try_lock:false", "try_lock_shared:false"}
    /\ Ownership' # Ownership
C10_TryNeverWaitsNorChanges ==
    \A t \in Threads :
        /\ (pc[t] = "idle" /\ Len(held[t]) < MaxDepth) =>
              (ENABLED TryLockCall(t) /\ ENABLED TryLockSharedCall(t))
        /\ ~ENABLED FailedTryChanges(t)

\* try_lock_shared() has returned false to a thread while another thread
\* holds exclusive access
C10_Witness ==
    \E t, u \in Threads :
        t # u /\ last = <<t, "try_lock_shared:false">> /\ HoldsExclusive(u)

\* C11: try_lock() called by a thread that holds shared access only (reader
\* depth >= 1, writer depth 0) can be called, returns false and changes nothing
\* of the ownership state, whatever the other threads do or do not hold.
SharedOnly(t) ==
    /\ pc[t] = "idle"
    /\ IF variant = "G"
       THEN g_writers[t] = 0 /\ Gt0(g_readers[t])
       ELSE m_writerThreadId # t /\ t \in DOMAIN m_readersOwnership
TryLockTrueOrChange(t) ==
    /\ TryLockCall(t)
    /\ last'[2] = "try_lock:true" \/ Ownership' # Ownership
C11_TryLockBySharedHolder ==
    \A t \in Threads : SharedOnly(t) =>
        /\ Len(held[t]) < MaxDepth => ENABLED TryLockCall(t)
        /\ ~ENABLED TryLockTrueOrChange(t)

\* try_lock() has returned false to a thread of the condition-variable class
\* that holds shared access at depth 2 while no other thread holds or requests
\* anything
C11_Witness ==
    \E t \in Threads :
        /\ variant = "F" /\ last = <<t, "try_lock:false">> /\ held[t] = <<"R", "R">>
        /\ SharedDepthIs(t, 2)
        /\ \A u \in Threads \ {t} : pc[u] = "idle" /\ held[u] = <<>>
        /\ m_writersOwnership = 0

\* C12: in the condition-variable class try_lock_shared() returns false only
\* in states in which lock_shared() called by the same thread would have to
\* wait: whenever a call can return false, lock_shared() cannot return at once
\* (so a thread that holds shared access gets true, pending writer or not).
TryLockSharedFalse(t) == F_try_lock_shared(t) /\ last'[2] = "try_lock_shared:false"
C12_TryLockSharedFalseOnlyIfWait ==
    variant = "F" =>
        \A t \in Threads : ENABLED TryLockSharedFalse(t) => ~ENABLED LockSharedReturnsAtOnce(t)

\* C13: in the condition-variable class, while a thread is registered as the
\* writer (m_writerThreadId set, m_writersOwnership > 0: from inside lock()
\* until its last unlock()), no step gives shared access to another thread that
\* holds nothing: neither lock_shared() nor try_lock_shared() adds its entry
\* to the reader table or returns it a shared guard.
WriterRegistered(w) == m_writerThreadId = w /\ Gt0(m_writersOwnership)
C13_RegisteredWriterBlocksNewReaders ==
    [][variant = "F" =>
          \A w, u \in Threads :
              (w # u /\ WriterRegistered(w) /\ held[u] = <<>> /\ u \notin DOMAIN m_readersOwnership) =>
                  /\ u \notin DOMAIN m_readersOwnership'
                  /\ ~HasR(held'[u])]_vars

\* a writer is registered and still inside lock(); the last reader has left
\* and, holding nothing, is blocked inside a new lock_shared()
C13_Witness ==
    \E w, u \in Threads :
        /\ variant = "F" /\ w # u
        /\ WriterRegistered(w) /\ pc[w] = "lock:read_queue"
        /\ held[u] = <<>> /\ pc[u] = "lock_shared:write_queue"

\* C14: in the condition-variable class lock_shared() called by a thread that
\* holds nothing does not return while another thread is inside lock() and
\* has not got write access yet (it waits on m_write_queue behind the current
\* writer, or on m_read_queue as the registered writer).
InsideLock(w) == pc[w] \in {"lock:write_queue", "lock:read_queue"}
LockSharedReturnsTo(u) ==
    /\ held[u] = <<>>
    /\ held'[u] = <<"R">>
    /\ last' = <<u, "lock_shared">>
C14_NoReaderPastWaitingWriter ==
    [][variant = "F" =>
          \A u \in Threads : LockSharedReturnsTo(u) =>
              ~\E w \in Threads \ {u} : InsideLock(w)]_vars

\* C15 (as stated): in the condition-variable class, from the call of lock()
\* by a thread that holds shared access to the return of that lock(), no
\* other thread holds exclusive access.
Upgrading(t) ==
    /\ pc[t] \in {"lock:write_queue", "lock:read_queue"}
    /\ held[t] # <<>> /\ ~HasW(held[t])
C15_UpgradeAtomic ==
    variant = "F" =>
        \A t \in Threads : Upgrading(t) => \A u \in Threads \ {t} : ~HoldsExclusive(u)

\* C15 (amended): when no writer is registered (m_writersOwnership = 0) at the
\* call of lock() by a thread that holds shared access, the call does not wait
\* behind a writer: it registers the thread in the step of the call, and from
\* there to the return of lock() the thread stays the registered writer and no
\* other thread holds exclusive access.
UpgradeCallNoWriter(t) == F_lock(t) /\ HoldsShared(t) /\ m_writersOwnership = 0
C15_UpgradeAtomicIfNoWriter ==
    /\ [][\A t \in Threads : UpgradeCallNoWriter(t) =>
              /\ pc'[t] \in {"idle", "lock:read_queue"}
              /\ m_writerThreadId' = t /\ m_writersOwnership' = 1]_vars
    /\ [](variant = "F" =>
              \A t \in Threads : (Upgrading(t) /\ pc[t] = "lock:read_queue") =>
                  /\ WriterRegistered(t)
                  /\ \A u \in Threads \ {t} : ~HoldsExclusive(u))

\* a thread that held shared access at depth 2 is inside lock() as the
\* registered writer and waits for the other thread, which holds shared access
C15_Witness ==
    \E t, u \in Threads :
        /\ variant = "F" /\ t # u
        /\ Upgrading(t) /\ pc[t] = "lock:read_queue" /\ held[t] = <<"R", "R">>
        /\ m_readerOwnershipBeforeUpgrade = 2
        /\ HoldsShared(u) /\ m_write_queue = {}

\* C16: in shared_recursive_mutex_t, when unlock() releases exclusive access
\* for a thread whose g_readers is not 0 (the downgrade), no other thread holds
\* exclusive access between the release of the exclusive hold and the regaining
\* of the shared one, and the thread holds shared access at its former depth
\* when unlock() returns.
Downgrading(t) == pc[t] \in {"unlock:mtx", "unlock_shared:mtx"}
C16_DowngradeNoInterveningWriter ==
    variant = "G" =>
        \A t \in Threads :
            /\ Downgrading(t) =>
                  \A u \in Threads \ {t} : ~(pc[u] = "idle" /\ Global_is_locked(u))
            /\ (pc[t] = "idle" /\ last = <<t, "unlock">> /\ held[t] # <<>> /\ ~HasW(held[t])) =>
                  (Global_is_locked_shared(t) /\ t \in m_sharedMtx.shared)

\* C17: in shared_recursive_mutex_t releasing never blocks: a thread inside
\* unlock() or unlock_shared() can always go on to the end of the call without
\* a step of another thread, the last unlock() of a thread that upgraded from
\* shared access included.
C17_ReleaseNeverBlocks ==
    variant = "G" =>
        \A t \in Threads :
            /\ (pc[t] = "idle" /\ Top(held[t]) = "W") => ENABLED G_unlock(t)
            /\ (pc[t] = "idle" /\ Top(held[t]) = "R") => ENABLED G_unlock_shared(t)
            /\ Downgrading(t) => ENABLED G_unlock_mtx(t)

\* C18: no hold is lost or invented under balanced use: for callers that
\* release each guard they own once, in whatever order, no counter goes below
\* zero, a thread that has released all its guards has reader depth 0 and
\* writer depth 0, and when every thread has done so the lock is free.
NoCounterBelowZero ==
    /\ \A t \in Threads : g_readers[t] >= 0 /\ g_writers[t] >= 0
    /\ m_writersOwnership >= 0 /\ m_readerOwnershipBeforeUpgrade >= 0
    /\ \A k \in DOMAIN m_readersOwnership : m_readersOwnership[k] >= 0
DepthsZero(t) ==
    IF variant = "G"
    THEN /\ g_readers[t] = 0 /\ g_writers[t] = 0
         /\ m_sharedMtx.owner # t /\ t \notin m_sharedMtx.shared
    ELSE m_writerThreadId # t /\ t \notin DOMAIN m_readersOwnership
LockIsFree ==
    IF variant = "G"
    THEN MtxFree
    ELSE m_writerThreadId = NoThread /\ m_writersOwnership = 0 /\ DOMAIN m_readersOwnership = {}
C18_BalancedNoLostHold ==
    driver = "balanced" =>
        /\ NoCounterBelowZero
        /\ \A t \in Threads : (pc[t] = "idle" /\ held[t] = <<>>) => DepthsZero(t)
        /\ (\A t \in Threads : pc[t] = "idle" /\ held[t] = <<>>) => LockIsFree

\* C19: unlock() or unlock_shared() called by a thread that holds nothing
\* (it owns no guard of either kind) either trips an
\* assertion (in a build that compiles assertions in) or leaves all ownership
\* state as it was, so that the caller does not appear to hold access
\* afterwards.
UnmatchedRelease(t) ==
    /\ held[t] = <<>>
    /\ G_unlock(t) \/ F_unlock(t) \/ G_unlock_shared(t) \/ F_unlock_shared(t)
TripsAssertion(t) == UnmatchedRelease(t) /\ fault' = "assert"
C19_UnmatchedReleasePolicy ==
    [][\A t \in Threads : (driver = "any" /\ UnmatchedRelease(t)) =>
            \/ ENABLED TripsAssertion(t)
            \/ /\ Ownership' = Ownership
               /\ ~Global_is_locked(t)' /\ ~Global_is_locked_shared(t)']_vars

\* C20: for properly nested calls in both classes, lock_shared() called by a
\* thread that holds exclusive access returns without waiting, adds one to the
\* writer depth and changes no reader depth; the matching unlock_shared()
\* takes one from the writer depth, changes no reader depth and leaves the
\* thread the exclusive owner.
WriterDepth(t) == IF variant = "G" THEN g_writers[t] ELSE m_writersOwnership
ReaderDepths == <<g_readers, m_readersOwnership, m_readerOwnershipBeforeUpgrade>>
OwnsExclusive(t) ==
    IF variant = "G"
    THEN Gt0(g_writers[t]) /\ m_sharedMtx.owner = t
    ELSE m_writerThreadId = t /\ Gt0(m_writersOwnership)
LockSharedCall(t) == G_lock_shared(t) \/ F_lock_shared(t)
UnlockSharedCall(t) == G_unlock_shared(t) \/ F_unlock_shared(t)
LockSharedByOwnerReturns(t) == LockSharedCall(t) /\ pc'[t] = "idle"
C20_SharedUnderExclusive ==
    /\ [](\A t \in Threads : (HoldsExclusive(t) /\ Len(held[t]) < MaxDepth) =>
              ENABLED LockSharedByOwnerReturns(t))
    /\ [][\A t \in Threads : HoldsExclusive(t) =>
              /\ LockSharedCall(t) =>
                    /\ pc'[t] = "idle" /\ fault' = "none"
                    /\ WriterDepth(t)' = WriterDepth(t) + 1
                    /\ ReaderDepths' = ReaderDepths
                    /\ OwnsExclusive(t)'
              /\ (UnlockSharedCall(t) /\ Top(held[t]) = "R") =>
                    /\ pc'[t] = "idle" /\ fault' = "none"
                    /\ WriterDepth(t)' = WriterDepth(t) - 1
                    /\ ReaderDepths' = ReaderDepths
                    /\ OwnsExclusive(t)']_vars

\* a thread that upgraded from shared access has taken and released a shared
\* guard under its exclusive one, while another thread is blocked
C20_Witness ==
    \E t, u \in Threads :
        /\ t # u /\ last = <<t, "unlock_shared">> /\ pc[t] = "idle" /\ held[t] = <<"R", "W">>
        /\ OwnsExclusive(t) /\ WriterDepth(t) = 1
        /\ Blocked(u)

\* C21: in shared_recursive_mutex_t the upgrade is a release and a new
\* acquisition with a window in between: lock() called by a thread that holds
\* shared access gives up the gate and leaves the thread inside lock(), and
\* while it is there and the gate is free another thread can take exclusive
\* access.
UpgradeOpensWindow(t) ==
    /\ G_lock(t)
    /\ pc'[t] = "lock:mtx"
    /\ t \notin m_sharedMtx'.shared /\ m_sharedMtx'.owner # t
TryLockTrue(u) == G_try_lock(u) /\ last'[2] = "try_lock:true"
C21_UpgradeWindowGlobal ==
    variant = "G" =>
        \A t \in Threads :
            /\ (SharedOnly(t) /\ Len(held[t]) < MaxDepth) => ENABLED UpgradeOpensWindow(t)
            /\ (pc[t] = "lock:mtx" /\ Gt0(g_readers[t])) =>
                  /\ t \notin m_sharedMtx.shared /\ m_sharedMtx.owner # t
                  /\ \A u \in Threads \ {t} :
                        (pc[u] = "idle" /\ held[u] = <<>> /\ MtxFree) => ENABLED TryLockTrue(u)

\* a thread that held shared access is still inside lock() and another thread
\* is back from the unlock() that released the exclusive access it got in
\* between
C21_Witness ==
    \E t, u \in Threads :
        /\ variant = "G" /\ t # u
        /\ pc[t] = "lock:mtx" /\ Gt0(g_readers[t]) /\ held[t] = <<"R">>
        /\ last = <<u, "unlock">> /\ pc[u] = "idle" /\ held[u] = <<>>
        /\ MtxFree

\* C22: in the condition-variable class, under the loop of test.cpp (every
\* reader releases or upgrades in the end) with a fair scheduler and no help
\* from spurious wake-ups: only the registered writer waits on m_read_queue;
\* the step that removes the last reader entry while it waits there either
\* takes it out of the wait (the notify_one of an upgrade) or leaves the
\* remover at the notify_one of unlock_shared(), whose step takes it out; and
\* a registered writer that waits for the readers returns from lock().
WaitsForReaders(w) == pc[w] = "lock:read_queue" /\ WriterRegistered(w)
LastReaderLeaves == DOMAIN m_readersOwnership # {} /\ DOMAIN m_readersOwnership' = {}
C22_WriterWokenByLastReader ==
    /\ [](/\ m_read_queue \subseteq {m_writerThreadId}
          /\ \A t \in Threads : pc[t] = "lock:read_queue" => WriterRegistered(t))
    /\ [][\A w \in Threads : (WaitsForReaders(w) /\ w \in m_read_queue /\ LastReaderLeaves) =>
              \/ w \notin m_read_queue'
              \/ \E t \in Threads \ {w} : pc'[t] = "unlock_shared:notify"]_vars
    /\ [][\A t \in Threads : (pc[t] = "unlock_shared:notify" /\ pc'[t] = "idle") =>
              m_read_queue' = {}]_vars
    /\ \A w \in Threads : WaitsForReaders(w) ~> (pc[w] = "idle" /\ HasW(held[w]))

\* the registered writer waits on m_read_queue and the thread that removed the
\* last reader entry stands before the notify_one of unlock_shared()
C22_Witness ==
    \E w, t \in Threads :
        /\ variant = "F" /\ w # t
        /\ WaitsForReaders(w) /\ w \in m_read_queue
        /\ pc[t] = "unlock_shared:notify" /\ DOMAIN m_readersOwnership = {}

\* C23: in the condition-variable class, under properly nested use of the six
\* operations, in every state with m_mtx free m_writerThreadId names a thread
\* exactly when m_writersOwnership > 0; the thread it names is the only one
\* that holds exclusive access or stands registered inside lock().
C23_WriterOwnerIffDepth ==
    variant = "F" =>
        /\ (m_writerThreadId \in Threads) <=> Gt0(m_writersOwnership)
        /\ (m_writerThreadId = NoThread) <=> (m_writersOwnership = 0)
        /\ \A t \in Threads :
              (HoldsExclusive(t) \/ pc[t] = "lock:read_queue") => m_writerThreadId = t

\* the owner is back at depth 1 by the unlock() of a nested exclusive hold
C23_Witness ==
    \E t \in Threads :
        /\ variant = "F" /\ m_writerThreadId = t /\ m_writersOwnership = 1
        /\ held[t] = <<"W">> /\ last = <<t, "unlock">>

\* C25: in the condition-variable class m_readerOwnershipBeforeUpgrade is 0
\* whenever the writer depth is 0, and while a thread is registered as the
\* writer it equals the number of shared holds that this thread had when it
\* called the lock() of its upgrade (0 for a writer that held nothing, as every
\* writer through try_lock() does), also while other threads are in the middle
\* of their own upgrade.
ReadersBelow(stk) ==
    Cardinality({i \in 1..Len(stk) : stk[i] = "R" /\ \A j \in 1..i : stk[j] # "W"})
C25_BeforeUpgradeBelongsToOwner ==
    variant = "F" =>
        /\ m_writersOwnership = 0 => m_readerOwnershipBeforeUpgrade = 0
        /\ m_readerOwnershipBeforeUpgrade # 0 => m_writerThreadId \in Threads
        /\ \A o \in Threads :
              WriterRegistered(o) => m_readerOwnershipBeforeUpgrade = ReadersBelow(held[o])

\* two threads upgrade at once from different depths: one is the writer owner,
\* the other has erased its entry and waits on m_write_queue
C25_Witness ==
    \E o, u \in Threads :
        /\ variant = "F" /\ o # u
        /\ WriterRegistered(o) /\ pc[o] = "idle" /\ held[o] = <<"R", "W">>
        /\ m_readerOwnershipBeforeUpgrade = 1
        /\ pc[u] = "lock:write_queue" /\ readersOnThisThread[u] = 2

\* C26: in the thread_local class, under properly nested use, a thread that is
\* not inside a call owns m_sharedMtx exclusively exactly when g_writers > 0,
\* shared exactly when g_writers = 0 and g_readers > 0, and in no mode when both
\* are 0; a thread that waits at m_sharedMtx.lock() or lock_shared() owns it in
\* no mode, and no call of std::shared_mutex is made without its precondition.
GateAgreesWithCounters(t) ==
    /\ g_writers[t] >= 0 /\ g_readers[t] >= 0
    /\ (m_sharedMtx.owner = t) <=> Gt0(g_writers[t])
    /\ (t \in m_sharedMtx.shared) <=> (g_writers[t] = 0 /\ Gt0(g_readers[t]))
C26_CountersAgreeWithGate ==
    variant = "G" =>
        /\ fault = "none"
        /\ \A t \in Threads :
              /\ pc[t] = "idle" => GateAgreesWithCounters(t)
              /\ pc[t] # "idle" => (m_sharedMtx.owner # t /\ t \notin m_sharedMtx.shared)

\* a thread is back at shared depth 1 by unlock_shared() from depth 2 and
\* still owns the gate shared, next to another reader
C26_Witness ==
    \E t, u \in Threads :
        /\ variant = "G" /\ t # u
        /\ last = <<t, "unlock_shared">> /\ held[t] = <<"R">>
        /\ g_readers[t] = 1 /\ g_writers[t] = 0
        /\ m_sharedMtx.shared = {t, u} /\ pc[u] = "idle"

\* C24: in recursive_shared_mutex of shared_recursive_mutex.cpp a thread that
\* called lock() while it held only shared access is never left blocked in a
\* wait of that lock() while no other thread holds or requests the lock (there
\* is then nobody to wake it, so the call would not return); and such a call,
\* once returned, has exclusive access.
OthersQuiet(t) == \A u \in Threads \ {t} : pc[u] = "idle" /\ held[u] = <<>>
UpgradeInProgress(t) ==
    /\ pc[t] \in {"lock:write_queue", "lock:read_queue"}
    /\ held[t] # <<>> /\ ~HasW(held[t])
C24_UpgradeReturnsCpp ==
    variant = "R" =>
        \A t \in Threads :
            /\ (UpgradeInProgress(t) /\ OthersQuiet(t)) =>
                  t \notin m_write_queue \cup m_read_queue
            /\ (pc[t] = "idle" /\ HasW(held[t])) => m_writerThreadId = t

====
